---- MODULE Spec2Model ----
(***************************************************************************)
(* Model of the site crawler of DANRIT-READER (scraper.ts): crawlUrl, its  *)
(* helper filterLinks and the fetcher scrapeUrl as the crawler sees it,    *)
(* and the POST /v1/crawl handler of server.ts that calls crawlUrl.        *)
(*                                                                         *)
(* The scraper source holds two revisions of the crawler.  Their crawlUrl  *)
(* loops are the same; their filterLinks differ:                           *)
(*   "rev1"  part_002 lines 240-321: keeps the resolved href as it is and  *)
(*           tests the lower-cased pathname against .png .jpg .pdf .zip    *)
(*   "rev3"  part_002 lines 743-864: keeps origin + pathname without a     *)
(*           trailing slash and tests that string against .png .jpg .pdf   *)
(* The variable rev says which revision runs.                              *)
(*                                                                         *)
(* A JavaScript string is a sequence of tokens, each token a literal       *)
(* piece of text ("https://", "www", ".", "example", "/", ".png", ...).    *)
(* Two strings are equal iff their token sequences are equal: no token of  *)
(* the alphabet used here is a concatenation of other tokens.              *)
(***************************************************************************)
EXTENDS Integers, Sequences, FiniteSets, TLC

VARIABLES
    rev,              \* which revision of scraper.ts runs
    body,             \* req.body of the POST /v1/crawl request
    spc,              \* position of the POST /v1/crawl handler
    response,         \* what the handler sent
    options,          \* crawlUrl argument
    inFlight,         \* number of scrapeUrl calls started and not yet settled
    browser,          \* the browser of the scrapeUrl call in flight: "none", "open"
    openBrowsers,     \* number of browsers launched and not yet closed
    discovered,       \* history: every link filterLinks returned to crawlUrl,
                      \* [url, depth of the page it was found on plus one,
                      \* capped: the queue cap kept it out of the queue]
    other,            \* the request that is served at the same time, suspended
    startUrl,         \* crawlUrl argument
    maxPages,         \* options.maxPages ?? 10
    maxDepth,         \* options.maxDepth ?? 2
    allowSubdomains,  \* options.allowSubdomains ?? false
    visited,          \* Set<string>
    queue,            \* {url, depth}[]
    results,          \* ScrapeResult[], each [url]
    linksDiscovered,  \* number
    startDomain,      \* new URL(startUrl).hostname
    pc,               \* position of crawlUrl
    current,          \* the entry whose scrapeUrl call is awaited
    returned,         \* the CrawlResult handed to the caller
    fetches,          \* history: every scrapeUrl call, [url, depth, render,
                      \* screenshot, ok, inScope, known]
    fRaw, fCur, fBase,\* arguments of the filterLinks calls under test
    fpc,              \* position of the filterLinks test sequence
    fStrict,          \* outcome of filterLinks(..., allowSubdomains = false)
    fSub,             \* outcome of filterLinks(..., allowSubdomains = true)
    fAgain,           \* outcome of the first call made once more
    fShuffled         \* outcome of the first call on rearranged, repeated rawLinks

serverVars == <<body, spc, response>>
crawlVars == <<options, startUrl, maxPages, maxDepth, allowSubdomains, visited, queue,
               results, linksDiscovered, startDomain, pc, current, returned,
               fetches, inFlight, browser, openBrowsers, discovered>>
filterVars == <<fRaw, fCur, fBase, fpc, fStrict, fSub, fAgain, fShuffled>>
vars == <<rev, other, serverVars, crawlVars, filterVars>>

Revisions == {"rev1", "rev3"}

(***************************************************************************)
(* String primitives of JavaScript, on token sequences.                    *)
(***************************************************************************)
Range(s) == {s[i] : i \in 1..Len(s)}

StartsWith(s, p) == Len(s) >= Len(p) /\ SubSeq(s, 1, Len(p)) = p

EndsWith(s, p) == Len(s) >= Len(p) /\ SubSeq(s, Len(s) - Len(p) + 1, Len(s)) = p

\* the upper-case tokens of the alphabet and their lower-case forms
LowerTok(t) ==
    CASE t = ".PNG"    -> ".png"
      [] t = ".ZIP"    -> ".zip"
      [] t = "EXAMPLE" -> "example"
      [] OTHER         -> t

ToLowerCase(s) == [i \in 1..Len(s) |-> LowerTok(s[i])]

\* s.replace(/^www\./, '')
StripWww(s) == IF StartsWith(s, <<"www", ".">>) THEN SubSeq(s, 3, Len(s)) ELSE s

\* s.replace(/\/$/, '')
StripTrailingSlash(s) ==
    IF Len(s) > 0 /\ s[Len(s)] = "/" THEN SubSeq(s, 1, Len(s) - 1) ELSE s

\* index of the first token of s that is in S, Len(s) + 1 when there is none
IndexOfAny(s, S) ==
    IF \E i \in 1..Len(s) : s[i] \in S
    THEN CHOOSE i \in 1..Len(s) : s[i] \in S /\ \A j \in 1..(i - 1) : s[j] \notin S
    ELSE Len(s) + 1

\* index of the last "/" of s, 0 when there is none
LastSlash(s) ==
    IF \E i \in 1..Len(s) : s[i] = "/"
    THEN CHOOSE i \in 1..Len(s) : s[i] = "/" /\ \A j \in (i + 1)..Len(s) : s[j] # "/"
    ELSE 0

(***************************************************************************)
(* new URL(input[, base]) of the WHATWG URL standard, for the inputs of    *)
(* this model: https URLs without userinfo or port, mailto: and            *)
(* javascript: URLs, and relative references.  The result is a record; ok  *)
(* = FALSE stands for the TypeError "Invalid URL".                         *)
(***************************************************************************)
InvalidURL == [ok |-> FALSE]

SpecialSchemes == {"https://", "http://"}
OpaqueSchemes == {"mailto:", "javascript:"}

\* leading and trailing spaces are removed before parsing
RECURSIVE TrimLeft(_)
TrimLeft(s) == IF Len(s) > 0 /\ s[1] = " " THEN TrimLeft(Tail(s)) ELSE s

RECURSIVE TrimRight(_)
TrimRight(s) ==
    IF Len(s) > 0 /\ s[Len(s)] = " " THEN TrimRight(SubSeq(s, 1, Len(s) - 1)) ELSE s

Trim(s) == TrimRight(TrimLeft(s))

\* the serialised URL of a special scheme
MakeURL(scheme, host, path, search, hash) ==
    [ok       |-> TRUE,
     special  |-> TRUE,
     scheme   |-> scheme,
     hostname |-> host,
     pathname |-> path,
     search   |-> search,
     hash     |-> hash,
     origin   |-> <<scheme>> \o host,
     href     |-> <<scheme>> \o host \o path \o search \o hash]

\* query and fragment of the text that follows the path
SplitQuery(path, rest, qEnd) ==
    [path   |-> path,
     search |-> SubSeq(rest, 1, qEnd - 1),
     hash   |-> SubSeq(rest, qEnd, Len(rest))]

SplitRest(path, rest) == SplitQuery(path, rest, IndexOfAny(rest, {"#"}))

SplitAt(s, pEnd) == SplitRest(SubSeq(s, 1, pEnd - 1), SubSeq(s, pEnd, Len(s)))

\* path, query and fragment of the text that follows the authority
SplitPath(s) == SplitAt(s, IndexOfAny(s, {"?", "#"}))

\* a special URL of an authority and the parts after it: an empty host or a
\* space in the host is a failure, an empty path is "/"
FromAuthority(scheme, authority, parts) ==
    IF authority = <<>> \/ " " \in Range(authority)
    THEN InvalidURL
    ELSE MakeURL(scheme, ToLowerCase(authority),
                 IF parts.path = <<>> THEN <<"/">> ELSE parts.path,
                 parts.search, parts.hash)

AuthorityAt(scheme, rest, aEnd) ==
    FromAuthority(scheme, SubSeq(rest, 1, aEnd - 1),
                  SplitPath(SubSeq(rest, aEnd, Len(rest))))

\* scheme://authority/path?query#fragment
ParseSpecial(scheme, rest) == AuthorityAt(scheme, rest, IndexOfAny(rest, {"/", "?", "#"}))

OpaqueURL(s, parts) ==
    [ok       |-> TRUE,
     special  |-> FALSE,
     scheme   |-> s[1],
     hostname |-> <<>>,
     pathname |-> parts.path,
     search   |-> parts.search,
     hash     |-> parts.hash,
     origin   |-> <<"null">>,
     href     |-> s]

\* mailto:... and javascript:...: no host, an opaque path
ParseOpaque(s) == OpaqueURL(s, SplitPath(Tail(s)))

\* a reference that starts with its path, against the directory dir of the base
RelativePath(b, dir, parts) ==
    MakeURL(b.scheme, b.hostname, dir \o parts.path, parts.search, parts.hash)

\* a relative reference against a parsed base
ResolveRelative(s, b) ==
    IF ~b.special
    THEN \* a base with an opaque path takes a fragment only
         IF Len(s) > 0 /\ s[1] = "#"
         THEN [b EXCEPT !.hash = s,
                        !.href = <<b.scheme>> \o b.pathname \o b.search \o s]
         ELSE InvalidURL
    ELSE IF s = <<>>
    THEN MakeURL(b.scheme, b.hostname, b.pathname, b.search, <<>>)
    ELSE IF s[1] = "#"
    THEN MakeURL(b.scheme, b.hostname, b.pathname, b.search, s)
    ELSE IF s[1] = "?"
    THEN RelativePath(b, b.pathname, SplitPath(s))
    ELSE IF StartsWith(s, <<"/", "/">>)
    THEN ParseSpecial(b.scheme, SubSeq(s, 3, Len(s)))
    ELSE IF s[1] = "/"
    THEN RelativePath(b, <<>>, SplitPath(s))
    ELSE RelativePath(b, SubSeq(b.pathname, 1, LastSlash(b.pathname)), SplitPath(s))

\* the trimmed input without a base
ParseAbsolute(s) ==
    IF s = <<>> THEN InvalidURL
    ELSE IF s[1] \in SpecialSchemes THEN ParseSpecial(s[1], Tail(s))
    ELSE IF s[1] \in OpaqueSchemes THEN ParseOpaque(s)
    ELSE InvalidURL

\* new URL(input): no base
NewURL(input) == ParseAbsolute(Trim(input))

\* the trimmed input against the parsed base
ParseWithBase(s, b) ==
    IF ~b.ok THEN InvalidURL
    ELSE IF s # <<>> /\ s[1] \in SpecialSchemes \cup OpaqueSchemes THEN ParseAbsolute(s)
    ELSE ResolveRelative(s, b)

\* new URL(input, base)
NewURLWithBase(input, base) == ParseWithBase(Trim(input), NewURL(base))

(***************************************************************************)
(* filterLinks.  The body of the for loop is LinkBody: it yields "skip"    *)
(* (the continue of the first test, or a link out of scope), "add" with    *)
(* the string put in uniqueLinks, or "throw" when new URL raises.          *)
(***************************************************************************)
\* !href || href.startsWith('#') || href.startsWith('mailto:') || href.startsWith('javascript:')
SkipHref(href) ==
    \/ href = <<>>
    \/ StartsWith(href, <<"#">>)
    \/ StartsWith(href, <<"mailto:">>)
    \/ StartsWith(href, <<"javascript:">>)

\* currentHost === normalizedBase
IsSameDomain(hostname, normalizedBase) == StripWww(hostname) = normalizedBase

\* urlObj.hostname.endsWith(`.${normalizedBase}`)
IsSubdomain(hostname, normalizedBase) == EndsWith(hostname, <<".">> \o normalizedBase)

\* rev1: the lower-cased pathname ends in .png, .jpg, .pdf or .zip
IsAssetPath(pathname) ==
    LET path == ToLowerCase(pathname)
    IN  \/ EndsWith(path, <<".png">>)
        \/ EndsWith(path, <<".jpg">>)
        \/ EndsWith(path, <<".pdf">>)
        \/ EndsWith(path, <<".zip">>)

\* rev3: origin + pathname without its trailing slash
Normalized(urlObj) == urlObj.origin \o StripTrailingSlash(urlObj.pathname)

\* rev3: the normalized string ends in .png, .jpg or .pdf
IsAssetNormalized(normalized) ==
    \/ EndsWith(normalized, <<".png">>)
    \/ EndsWith(normalized, <<".jpg">>)
    \/ EndsWith(normalized, <<".pdf">>)

SkipLink == [kind |-> "skip"]
ThrowLink == [kind |-> "throw"]
AddLink(url) == [kind |-> "add", url |-> url]

\* isSameDomain || (allowSubdomains && isSubdomain)
InScopeAlways(hostname, normalizedBase, allow) == TRUE

InScope(hostname, normalizedBase, allow) ==
    IsSameDomain(hostname, normalizedBase) \/ (allow /\ IsSubdomain(hostname, normalizedBase))

\* the asset test and uniqueLinks.add of revision r, for a link in scope
KeepLink(r, absoluteUrl, urlObj) ==
    IF r = "rev1"
    THEN IF IsAssetPath(urlObj.pathname) THEN SkipLink ELSE AddLink(absoluteUrl)
    ELSE IF IsAssetNormalized(Normalized(urlObj))
         THEN SkipLink ELSE AddLink(Normalized(urlObj))

\* const urlObj = new URL(absoluteUrl) and the scope test
ScopeLink(r, absoluteUrl, urlObj, normalizedBase, allow) ==
    IF ~urlObj.ok THEN ThrowLink
    ELSE IF ~InScope(urlObj.hostname, normalizedBase, allow) THEN SkipLink
    ELSE KeepLink(r, absoluteUrl, urlObj)

\* const absoluteUrl = new URL(href, currentUrl).href
ResolvedLink(r, resolved, normalizedBase, allow) ==
    IF ~resolved.ok THEN ThrowLink
    ELSE ScopeLink(r, resolved.href, NewURL(resolved.href), normalizedBase, allow)

\* the statements inside try { ... } for one href
LinkBody(r, href, currentUrl, normalizedBase, allow) ==
    IF SkipHref(href) THEN SkipLink
    ELSE ResolvedLink(r, NewURLWithBase(href, currentUrl), normalizedBase, allow)

\* catch { }: an exception of the body ends this href only
CatchLinkRethrow(outcome) == outcome

CatchLink(outcome) == IF outcome.kind = "throw" THEN SkipLink ELSE outcome

\* uniqueLinks.add(x): a Set keeps insertion order and holds x once
SetAdd(uniqueLinks, x) ==
    IF x \in Range(uniqueLinks) THEN uniqueLinks ELSE Append(uniqueLinks, x)

\* uniqueLinks after the outcome of one href
AfterLink(outcome, uniqueLinks) ==
    IF outcome.kind = "add" THEN SetAdd(uniqueLinks, outcome.url) ELSE uniqueLinks

\* for (const href of rawLinks) { try { ... } catch { } }, from the i-th href on;
\* an exception that the catch lets through leaves the function
RECURSIVE FilterLoop(_, _, _, _, _, _, _)
FilterStep(r, rawLinks, i, currentUrl, normalizedBase, allow, uniqueLinks, outcome) ==
    IF outcome.kind = "throw"
    THEN [raised |-> TRUE, links |-> <<>>]
    ELSE FilterLoop(r, rawLinks, i + 1, currentUrl, normalizedBase, allow,
                    AfterLink(outcome, uniqueLinks))

FilterLoop(r, rawLinks, i, currentUrl, normalizedBase, allow, uniqueLinks) ==
    IF i > Len(rawLinks)
    THEN [raised |-> FALSE, links |-> uniqueLinks]
    ELSE FilterStep(r, rawLinks, i, currentUrl, normalizedBase, allow, uniqueLinks,
                    CatchLink(LinkBody(r, rawLinks[i], currentUrl, normalizedBase, allow)))

\* filterLinks(rawLinks, currentUrl, baseDomain, allowSubdomains) of revision r:
\* [raised |-> FALSE, links |-> Array.from(uniqueLinks)], or raised = TRUE
\* when an exception leaves the function
\* const uniqueLinks = new Set<string>(): a fresh set in every call
UniqueLinksKept == fSub.links

UniqueLinks == <<>>

filterLinks(r, rawLinks, currentUrl, baseDomain, allow) ==
    FilterLoop(r, rawLinks, 1, currentUrl, StripWww(baseDomain), allow, UniqueLinks)

(***************************************************************************)
(* Bounds and input pools.                                                 *)
(***************************************************************************)
MaxPagesBound == 4      \* maxPages ranges over 0..MaxPagesBound
MaxDepthBound == 2      \* maxDepth ranges over 0..MaxDepthBound
MaxRawLinks == 2        \* length of rawLinks in the filterLinks calls under test

ExampleCom == <<"example", ".", "com">>
WwwExampleCom == <<"www", ".">> \o ExampleCom
BlogExampleCom == <<"blog", ".">> \o ExampleCom
NotExampleCom == <<"not", "example", ".", "com">>
OtherCom == <<"other", ".", "com">>

Https(host, rest) == <<"https://">> \o host \o rest

\* crawlUrl's startUrl
StartUrls ==
    { Https(ExampleCom, <<"/">>),
      <<"/", "start">>,                          \* no scheme: new URL throws
      Https(<<>>, <<>>) }                        \* "https://": new URL throws

\* a.href of the anchors a fetched page may hold
AnchorPool ==
    { Https(ExampleCom, <<"/">>),
      Https(ExampleCom, <<"/", "a">>),
      Https(BlogExampleCom, <<"/", "c">>),
      Https(ExampleCom, <<"/", "f", ".zip">>),
      <<"mailto:", "x@y.com">> }

\* a page with four links, three on the start host and one on a subdomain
DensePage ==
    << Https(ExampleCom, <<"/", "a">>),
       Https(WwwExampleCom, <<"/", "b">>),
       Https(BlogExampleCom, <<"/", "c">>),
       Https(ExampleCom, <<"/", "d">>) >>

\* the anchors of one fetched page: none, one or two of the pool, in any order,
\* the same one twice included
AnchorLists ==
    {<<>>} \cup {<<a>> : a \in AnchorPool} \cup {<<a, b>> : a \in AnchorPool, b \in AnchorPool}

\* the anchors of one fetched page of a site with link-dense pages: none, one of
\* the pool, or the four links of DensePage
DenseAnchorLists == {<<>>} \cup {<<a>> : a \in AnchorPool} \cup {DensePage}

\* rawLinks elements of the filterLinks calls under test
RawPool ==
    { Https(ExampleCom, <<"/", "a">>),
      Https(WwwExampleCom, <<"/", "b">>),
      Https(BlogExampleCom, <<"/", "c">>),
      Https(OtherCom, <<"/", "d">>),
      <<"/", "relative">>,
      <<"#", "frag">>,
      <<"mailto:", "x@y.com">>,
      Https(ExampleCom, <<"/", "img", ".png">>),
      <<>>,
      <<"javascript:", "void(0)">>,
      Https(NotExampleCom, <<"/", "e">>),
      Https(<<"exa", " ", "mple", ".", "com">>, <<"/">>),   \* new URL throws
      Https(ExampleCom, <<"/", "f", ".zip">>),
      Https(ExampleCom, <<"/", "IMG", ".PNG">>),
      Https(BlogExampleCom, <<"/", "g", ".pdf">>),
      Https(BlogExampleCom, <<"/", "g", ".zip">>),
      Https(<<>>, <<>>),                                    \* new URL throws
      Https(ExampleCom, <<"/", "a", "/", "#", "frag">>),
      <<"h", ".jpg">>,
      Https(<<"EXAMPLE", ".", "com">>, <<"/", "a", "?", "q">>) }

RawLists == UNION {[1..n -> RawPool] : n \in 0..MaxRawLinks}

CurrentUrls ==
    { Https(ExampleCom, <<"/", "start">>),
      Https(WwwExampleCom, <<"/", "dir", "/", "page">>) }

BaseDomains == { ExampleCom, WwwExampleCom, BlogExampleCom }

(***************************************************************************)
(* scrapeUrl as crawlUrl sees it: it resolves to a ScrapeResult whose url  *)
(* is the requested url and whose links are the hrefs that start with      *)
(* 'http', or it rejects.                                                  *)
(***************************************************************************)
\* .filter((href: string) => href && href.startsWith('http'))
RECURSIVE ExtractLinks(_)
ExtractLinks(anchors) ==
    IF anchors = <<>> THEN <<>>
    ELSE (IF Head(anchors) # <<>> /\ Head(anchors)[1] \in {"https://", "http://"}
          THEN <<Head(anchors)>> ELSE <<>>) \o ExtractLinks(Tail(anchors))

ScrapeResult(url, anchors) == [url |-> url, links |-> ExtractLinks(anchors)]

\* what results keeps of a ScrapeResult: crawlUrl reads result.links once, in the
\* iteration that pushed the result, and nothing else of it
Page(result) == [url |-> result.url]

(***************************************************************************)
(* crawlUrl                                                                *)
(***************************************************************************)
NoEntry == [url |-> <<>>, depth |-> -1]
NoResult == [pages |-> <<>>, stats |-> [pagesScraped |-> -1, linksDiscovered |-> -1]]
NoOutcome == [raised |-> FALSE, links |-> <<>>]

\* an optional field of an object: <<>> when it is undefined, <<v>> when it is v
Undefined == <<>>

Some(v) == <<v>>

\* field ?? orElse
CoalesceAlways(field, orElse) == orElse

Coalesce(field, orElse) == IF field = Undefined THEN orElse ELSE field[1]

NoOptions ==
    [maxPages |-> Undefined, maxDepth |-> Undefined, render |-> Undefined,
     screenshot |-> Undefined, allowSubdomains |-> Undefined]

NoBody ==
    [url |-> <<>>, maxPages |-> Undefined, maxDepth |-> Undefined,
     render |-> Undefined, screenshot |-> Undefined, allowSubdomains |-> Undefined]

NoResponse == [status |-> 0, success |-> FALSE, data |-> NoResult, error |-> <<>>]

FilterIdle ==
    /\ fRaw = <<>> /\ fCur = <<>> /\ fBase = <<>>
    /\ fpc = "idle" /\ fStrict = NoOutcome /\ fSub = NoOutcome
    /\ fAgain = NoOutcome /\ fShuffled = NoOutcome

\* crawlUrl is not running
CrawlIdle ==
    /\ options = NoOptions
    /\ startUrl = <<>> /\ maxPages = 0 /\ maxDepth = 0 /\ allowSubdomains = FALSE
    /\ visited = {} /\ queue = <<>> /\ results = <<>> /\ linksDiscovered = 0
    /\ startDomain = <<>> /\ pc = "idle" /\ current = NoEntry
    /\ returned = NoResult /\ fetches = <<>> /\ inFlight = 0
    /\ browser = "none" /\ openBrowsers = 0 /\ discovered = {}

\* the variables of a request that is not there
NoRequest ==
    [body |-> NoBody, spc |-> "idle", response |-> NoResponse,
     options |-> NoOptions, startUrl |-> <<>>, maxPages |-> 0, maxDepth |-> 0,
     allowSubdomains |-> FALSE, visited |-> {}, queue |-> <<>>, results |-> <<>>,
     linksDiscovered |-> 0, startDomain |-> <<>>, pc |-> "idle",
     current |-> NoEntry, returned |-> NoResult, fetches |-> <<>>, inFlight |-> 0,
     browser |-> "none", openBrowsers |-> 0, discovered |-> {}]

\* no request is being handled
ServerIdle == body = NoBody /\ spc = "idle" /\ response = NoResponse

\* the request bodies: every maxPages, maxDepth and allowSubdomains with render
\* and screenshot left out, and bodies that leave fields out or send 0 and false
FullBodies ==
    [url : StartUrls,
     maxPages : {Some(n) : n \in 0..MaxPagesBound},
     maxDepth : {Some(n) : n \in 0..MaxDepthBound},
     render : {Undefined},
     screenshot : {Undefined},
     allowSubdomains : {Some(b) : b \in BOOLEAN}]

PartialBodies ==
    { [NoBody EXCEPT !.url = Https(ExampleCom, <<"/">>)],
      [NoBody EXCEPT !.url = Https(ExampleCom, <<"/">>),
                     !.maxPages = Some(0), !.maxDepth = Some(0),
                     !.render = Some(FALSE), !.screenshot = Some(FALSE),
                     !.allowSubdomains = Some(FALSE)],
      [NoBody EXCEPT !.url = Https(ExampleCom, <<"/">>),
                     !.maxPages = Some(1), !.render = Some(TRUE)],
      [NoBody EXCEPT !.url = Https(ExampleCom, <<"/">>),
                     !.maxDepth = Some(0), !.screenshot = Some(TRUE),
                     !.allowSubdomains = Some(TRUE)],
      [NoBody EXCEPT !.maxPages = Some(1)] }          \* no url

Bodies == FullBodies \cup PartialBodies

\* a POST /v1/crawl request has arrived
Init ==
    /\ rev \in Revisions
    /\ other = NoRequest
    /\ body \in Bodies
    /\ spc = "request"
    /\ response = NoResponse
    /\ CrawlIdle
    /\ FilterIdle

\* if (!url) { res.status(400).json({ error: "Missing 'url' in body" }); return; }
MissingUrl ==
    /\ spc = "request"
    /\ body.url = <<>>
    /\ response' = [status |-> 400, success |-> FALSE, data |-> NoResult,
                    error |-> <<"Missing 'url' in body">>]
    /\ spc' = "responded"
    /\ UNCHANGED <<rev, other, body, crawlVars, filterVars>>

\* the defaults of the handler and of crawlUrl
DefaultMaxPages == 10
DefaultMaxDepth == 2

\* the options object the handler builds from the body
HandlerOptions(b) ==
    [maxPages        |-> Some(Coalesce(b.maxPages, DefaultMaxPages)),
     maxDepth        |-> Some(Coalesce(b.maxDepth, DefaultMaxDepth)),
     render          |-> Some(Coalesce(b.render, FALSE)),
     screenshot      |-> Some(Coalesce(b.screenshot, FALSE)),
     allowSubdomains |-> Some(Coalesce(b.allowSubdomains, FALSE))]

\* crawlUrl(startUrl, opts) up to let linksDiscovered = 0
EnterCrawl(url, opts) ==
    /\ options' = opts
    /\ startUrl' = url
    /\ maxPages' = Coalesce(opts.maxPages, DefaultMaxPages)
    /\ maxDepth' = Coalesce(opts.maxDepth, DefaultMaxDepth)
    /\ allowSubdomains' = Coalesce(opts.allowSubdomains, FALSE)
    /\ visited' = {}
    /\ queue' = <<[url |-> url, depth |-> 0]>>
    /\ results' = <<>>
    /\ linksDiscovered' = 0
    /\ discovered' = {}
    /\ pc' = "start"

\* the handler calls crawlUrl(url, { maxPages: maxPages ?? 10, ... }) and awaits it
PostCrawl ==
    /\ spc = "request"
    /\ body.url # <<>>
    /\ EnterCrawl(body.url, HandlerOptions(body))
    /\ spc' = "crawling"
    /\ UNCHANGED <<rev, other, body, response, startDomain, current, returned, fetches,
                   inFlight, browser, openBrowsers, filterVars>>

\* const startDomain = new URL(startUrl).hostname
StartDomain ==
    /\ pc = "start"
    /\ NewURL(startUrl).ok
    /\ startDomain' = NewURL(startUrl).hostname
    /\ pc' = "loop"
    /\ UNCHANGED <<rev, other, serverVars, options, discovered, browser,
                   openBrowsers, startUrl, maxPages, maxDepth,
                   allowSubdomains, visited, queue, results, linksDiscovered,
                   current, returned, fetches, inFlight, filterVars>>

\* new URL(startUrl) throws: the exception leaves crawlUrl
StartUrlInvalidSwallowed ==
    /\ pc = "start"
    /\ ~NewURL(startUrl).ok
    /\ pc' = "loop"
    /\ UNCHANGED <<rev, other, serverVars, options, discovered, browser,
                   openBrowsers, startUrl, maxPages, maxDepth,
                   allowSubdomains, visited, queue, results, linksDiscovered,
                   startDomain, current, returned, fetches, inFlight, filterVars>>

StartUrlInvalid ==
    /\ pc = "start"
    /\ ~NewURL(startUrl).ok
    /\ pc' = "raised"
    /\ UNCHANGED <<rev, other, serverVars, options, discovered, browser,
                   openBrowsers, startUrl, maxPages, maxDepth,
                   allowSubdomains, visited, queue, results, linksDiscovered,
                   startDomain, current, returned, fetches, inFlight, filterVars>>

\* queue.length > 0 && results.length < maxPages
LoopConditionNoPageLimit == Len(queue) > 0

LoopConditionLeavesOne == Len(queue) > 1 /\ Len(results) < maxPages

LoopCondition == Len(queue) > 0 /\ Len(results) < maxPages

\* visited.has(url) || depth > maxDepth
SkipEntryDepthOnly(entry) == entry.depth > maxDepth

SkipEntryAtMaxDepth(entry) == entry.url \in visited \/ entry.depth >= maxDepth

SkipEntry(entry) == entry.url \in visited \/ entry.depth > maxDepth

\* the loop condition fails: return { pages, stats }
Return ==
    /\ pc = "loop"
    /\ ~LoopCondition
    /\ returned' = [pages |-> results,
                    stats |-> [pagesScraped    |-> Len(results),
                               linksDiscovered |-> linksDiscovered]]
    /\ pc' = "done"
    /\ UNCHANGED <<rev, other, serverVars, options, discovered, browser,
                   openBrowsers, startUrl, maxPages, maxDepth,
                   allowSubdomains, visited, queue, results, linksDiscovered,
                   startDomain, current, fetches, inFlight, filterVars>>

\* queue.shift(); if (visited.has(url) || depth > maxDepth) continue
DiscardRaises ==
    /\ pc = "loop"
    /\ LoopCondition
    /\ SkipEntry(Head(queue))
    /\ queue' = Tail(queue)
    /\ pc' = "raised"
    /\ UNCHANGED <<rev, other, serverVars, options, discovered, browser,
                   openBrowsers, startUrl, maxPages, maxDepth,
                   allowSubdomains, visited, results, linksDiscovered, startDomain,
                   current, returned, fetches, inFlight, filterVars>>

Discard ==
    /\ pc = "loop"
    /\ LoopCondition
    /\ SkipEntry(Head(queue))
    /\ queue' = Tail(queue)
    /\ UNCHANGED <<rev, other, serverVars, options, discovered, browser,
                   openBrowsers, startUrl, maxPages, maxDepth,
                   allowSubdomains, visited, results, linksDiscovered, startDomain,
                   pc, current, returned, fetches, inFlight, filterVars>>

\* queue.shift(); visited.add(url); await scrapeUrl(url, ...) is started
DequeueNoMark ==
    /\ pc = "loop"
    /\ LoopCondition
    /\ ~SkipEntry(Head(queue))
    /\ queue' = Tail(queue)
    /\ current' = Head(queue)
    /\ inFlight' = inFlight + 1
    /\ pc' = "fetching"
    /\ UNCHANGED <<rev, other, serverVars, options, discovered, browser,
                   openBrowsers, startUrl, maxPages, maxDepth,
                   allowSubdomains, visited, results, linksDiscovered, startDomain,
                   returned, fetches, filterVars>>

DequeueNoAwait ==
    /\ pc \in {"loop", "fetching"}
    /\ LoopCondition
    /\ ~SkipEntry(Head(queue))
    /\ queue' = Tail(queue)
    /\ visited' = visited \cup {Head(queue).url}
    /\ current' = Head(queue)
    /\ inFlight' = inFlight + 1
    /\ pc' = "fetching"
    /\ UNCHANGED <<rev, other, serverVars, options, discovered, browser,
                   openBrowsers, startUrl, maxPages, maxDepth,
                   allowSubdomains, results, linksDiscovered, startDomain, returned,
                   fetches, filterVars>>

Dequeue ==
    /\ pc = "loop"
    /\ LoopCondition
    /\ ~SkipEntry(Head(queue))
    /\ queue' = Tail(queue)
    /\ visited' = visited \cup {Head(queue).url}
    /\ current' = Head(queue)
    /\ inFlight' = inFlight + 1
    /\ pc' = "fetching"
    /\ UNCHANGED <<rev, other, serverVars, options, discovered, browser,
                   openBrowsers, startUrl, maxPages, maxDepth,
                   allowSubdomains, results, linksDiscovered, startDomain, returned,
                   fetches, filterVars>>

\* for (const link of filteredLinks) if (!visited.has(link) && results.length +
\* queue.length < maxPages * 2) queue.push({ url: link, depth: depth + 1 })
RECURSIVE EnqueueLinksSameDepth(_, _, _, _, _, _)
EnqueueLinksSameDepth(filteredLinks, i, q, nResults, depth, vis) ==
    IF i > Len(filteredLinks) THEN q
    ELSE EnqueueLinksSameDepth(filteredLinks, i + 1,
                      IF filteredLinks[i] \notin vis /\ nResults + Len(q) < maxPages * 2
                      THEN Append(q, [url |-> filteredLinks[i], depth |-> depth])
                      ELSE q,
                      nResults, depth, vis)

RECURSIVE EnqueueLinksVisitedToo(_, _, _, _, _, _)
EnqueueLinksVisitedToo(filteredLinks, i, q, nResults, depth, vis) ==
    IF i > Len(filteredLinks) THEN q
    ELSE EnqueueLinksVisitedToo(filteredLinks, i + 1,
                      IF nResults + Len(q) < maxPages * 2
                      THEN Append(q, [url |-> filteredLinks[i], depth |-> depth + 1])
                      ELSE q,
                      nResults, depth, vis)

RECURSIVE EnqueueLinksAtFront(_, _, _, _, _, _)
EnqueueLinksAtFront(filteredLinks, i, q, nResults, depth, vis) ==
    IF i > Len(filteredLinks) THEN q
    ELSE EnqueueLinksAtFront(filteredLinks, i + 1,
                      IF filteredLinks[i] \notin vis /\ nResults + Len(q) < maxPages * 2
                      THEN <<[url |-> filteredLinks[i], depth |-> depth + 1]>> \o q
                      ELSE q,
                      nResults, depth, vis)

RECURSIVE EnqueueLinksNoCap(_, _, _, _, _, _)
EnqueueLinksNoCap(filteredLinks, i, q, nResults, depth, vis) ==
    IF i > Len(filteredLinks) THEN q
    ELSE EnqueueLinksNoCap(filteredLinks, i + 1,
                      IF filteredLinks[i] \notin vis
                      THEN Append(q, [url |-> filteredLinks[i], depth |-> depth + 1])
                      ELSE q,
                      nResults, depth, vis)

RECURSIVE EnqueueLinksSkipLevel(_, _, _, _, _, _)
EnqueueLinksSkipLevel(filteredLinks, i, q, nResults, depth, vis) ==
    IF i > Len(filteredLinks) THEN q
    ELSE EnqueueLinksSkipLevel(filteredLinks, i + 1,
                      IF filteredLinks[i] \notin vis /\ nResults + Len(q) < maxPages * 2
                      THEN Append(q, [url |-> filteredLinks[i], depth |-> depth + 2])
                      ELSE q,
                      nResults, depth, vis)

\* for (const link of filteredLinks) { ...; break }
EnqueueLinksFirstOnly(filteredLinks, i, q, nResults, depth, vis) ==
    IF i > Len(filteredLinks) THEN q
    ELSE IF filteredLinks[i] \notin vis /\ nResults + Len(q) < maxPages * 2
    THEN Append(q, [url |-> filteredLinks[i], depth |-> depth + 1])
    ELSE q

\* the links of filteredLinks, from the i-th on, that are not visited and that
\* the test results.length + queue.length < maxPages * 2 keeps out of the queue
RECURSIVE CappedLinks(_, _, _, _, _)
CappedLinks(filteredLinks, i, q, nResults, vis) ==
    IF i > Len(filteredLinks) THEN {}
    ELSE IF filteredLinks[i] \in vis
    THEN CappedLinks(filteredLinks, i + 1, q, nResults, vis)
    ELSE IF nResults + Len(q) < maxPages * 2
    THEN CappedLinks(filteredLinks, i + 1, Append(q, filteredLinks[i]), nResults, vis)
    ELSE {filteredLinks[i]} \cup CappedLinks(filteredLinks, i + 1, q, nResults, vis)

RECURSIVE EnqueueLinks(_, _, _, _, _, _)
EnqueueLinks(filteredLinks, i, q, nResults, depth, vis) ==
    IF i > Len(filteredLinks) THEN q
    ELSE EnqueueLinks(filteredLinks, i + 1,
                      IF filteredLinks[i] \notin vis /\ nResults + Len(q) < maxPages * 2
                      THEN Append(q, [url |-> filteredLinks[i], depth |-> depth + 1])
                      ELSE q,
                      nResults, depth, vis)

\* if (depth >= maxDepth) continue
AtMaxDepthOffByOne(depth) == depth > maxDepth

AtMaxDepth(depth) == depth >= maxDepth

\* where control goes after catch (err) { console.error(...) }: the next iteration
AfterCatchRethrow == "raised"

AfterCatch == "loop"

\* the record of a settled scrapeUrl call in the history: inScope is the number
\* of links filterLinks returned for the page, known the number of them that
\* were in visited at that moment
Fetched(ok, links) ==
    [url |-> current.url, depth |-> current.depth,
     render |-> options.render, screenshot |-> options.screenshot,
     ok |-> ok, inScope |-> Len(links),
     known |-> Cardinality({l \in Range(links) : l \in visited})]

\* linksDiscovered += filteredLinks.length
NewLinksOnly(filteredLinks) == Cardinality({l \in Range(filteredLinks) : l \notin visited})

Discovered(filteredLinks) == Len(filteredLinks)

\* the loop body after await scrapeUrl(...) gave result: results.push(result) and,
\* below maxDepth, filtered = filterLinks(...) is counted and enqueued; an
\* exception of filterLinks would be caught by the catch of the loop body
Expand(result, filtered) ==
    /\ results' = Append(results, Page(result))
    /\ fetches' = Append(fetches, Fetched(TRUE, filtered.links))
    /\ IF AtMaxDepth(current.depth) \/ filtered.raised
       THEN UNCHANGED <<linksDiscovered, discovered, queue>>
       ELSE /\ linksDiscovered' = linksDiscovered + Discovered(filtered.links)
            /\ discovered' = discovered \cup
                    {[url |-> l, depth |-> current.depth + 1,
                      capped |-> l \in CappedLinks(filtered.links, 1, queue,
                                                   Len(results) + 1, visited)] :
                        l \in Range(filtered.links)}
            /\ queue' = EnqueueLinks(filtered.links, 1, queue, Len(results) + 1,
                                     current.depth, visited)

Scraped(result) ==
    Expand(result,
           filterLinks(rev, result.links, current.url, startDomain, allowSubdomains))

\* scrapeUrl: const browser = await puppeteer.launch({...}) resolved
Launch ==
    /\ pc = "fetching"
    /\ browser = "none"
    /\ browser' = "open"
    /\ openBrowsers' = openBrowsers + 1
    /\ UNCHANGED <<rev, other, serverVars, options, discovered, startUrl, maxPages,
                   maxDepth, allowSubdomains, visited, queue, results,
                   linksDiscovered, startDomain, pc, current, returned, fetches,
                   inFlight, filterVars>>

\* finally { await browser.close() } when the try block of scrapeUrl threw
LeftOpenOnError(n) == n

ClosedOnError(n) == n - 1

\* scrapeUrl resolves with the links of the anchors of the page, one of lists:
\* the try block returned and finally closed the browser
ScrapeOkFrom(lists) ==
    /\ pc = "fetching"
    /\ browser = "open"
    /\ \E anchors \in lists : Scraped(ScrapeResult(current.url, anchors))
    /\ browser' = "none"
    /\ openBrowsers' = openBrowsers - 1
    /\ inFlight' = inFlight - 1
    /\ pc' = "loop"
    /\ current' = NoEntry
    /\ UNCHANGED <<rev, other, serverVars, options, startUrl, maxPages, maxDepth,
                   allowSubdomains, visited, startDomain, returned, filterVars>>

ScrapeOk == ScrapeOkFrom(AnchorLists)

\* the same on a site with link-dense pages
ScrapeDense == ScrapeOkFrom(DenseAnchorLists)

\* scrapeUrl rejects, before the launch (new URL(proxyUrl) or puppeteer.launch
\* threw) or inside the try block, whose finally closes the browser;
\* crawlUrl: catch (err) { console.error(...) } and the loop goes on
ScrapeFailsRequeues ==
    /\ pc = "fetching"
    /\ fetches' = Append(fetches, Fetched(FALSE, <<>>))
    /\ browser' = "none"
    /\ openBrowsers' = IF browser = "open" THEN ClosedOnError(openBrowsers)
                                           ELSE openBrowsers
    /\ inFlight' = inFlight - 1
    /\ pc' = AfterCatch
    /\ current' = NoEntry
    /\ queue' = Append(queue, current)
    /\ UNCHANGED <<rev, other, serverVars, options, discovered, startUrl, maxPages,
                   maxDepth, allowSubdomains, visited, results, linksDiscovered,
                   startDomain, returned, filterVars>>

ScrapeFails ==
    /\ pc = "fetching"
    /\ fetches' = Append(fetches, Fetched(FALSE, <<>>))
    /\ browser' = "none"
    /\ openBrowsers' = IF browser = "open" THEN ClosedOnError(openBrowsers)
                                           ELSE openBrowsers
    /\ inFlight' = inFlight - 1
    /\ pc' = AfterCatch
    /\ current' = NoEntry
    /\ UNCHANGED <<rev, other, serverVars, options, discovered, startUrl, maxPages,
                   maxDepth, allowSubdomains, visited, queue, results,
                   linksDiscovered, startDomain, returned, filterVars>>

\* res.json({ success: true, data: result, meta })
OnReturn(result) ==
    [status |-> 200, success |-> TRUE, data |-> result, error |-> <<>>]

\* catch (error) { res.status(500).json({ success: false, error: msg }) }
OnRaiseSuccess(msg) ==
    [status |-> 200, success |-> TRUE, data |-> NoResult, error |-> msg]

OnRaise(msg) ==
    [status |-> 500, success |-> FALSE, data |-> NoResult, error |-> msg]

\* crawlUrl returned to the handler
RespondOk ==
    /\ spc = "crawling"
    /\ pc = "done"
    /\ response' = OnReturn(returned)
    /\ spc' = "responded"
    /\ UNCHANGED <<rev, other, body, crawlVars, filterVars>>

\* crawlUrl raised: the TypeError of new URL reaches the catch of the handler
RespondError ==
    /\ spc = "crawling"
    /\ pc = "raised"
    /\ response' = OnRaise(<<"Invalid URL">>)
    /\ spc' = "responded"
    /\ UNCHANGED <<rev, other, body, crawlVars, filterVars>>

Next ==
    \/ MissingUrl
    \/ PostCrawl
    \/ StartDomain
    \/ StartUrlInvalid
    \/ Return
    \/ Discard
    \/ Dequeue
    \/ Launch
    \/ ScrapeOk
    \/ ScrapeFails
    \/ RespondOk
    \/ RespondError

Spec == Init /\ [][Next]_vars

DenseMaxPages == 3

\* crawls of a site with link-dense pages, for small maxPages
DenseBodies ==
    [url : StartUrls \cup {<<>>},
     maxPages : {Some(n) : n \in 1..DenseMaxPages},
     maxDepth : {Some(n) : n \in 1..MaxDepthBound},
     render : {Undefined},
     screenshot : {Undefined},
     allowSubdomains : {Some(b) : b \in BOOLEAN}]

DenseInit ==
    /\ rev \in Revisions
    /\ other = NoRequest
    /\ body \in DenseBodies
    /\ spc = "request"
    /\ response = NoResponse
    /\ CrawlIdle
    /\ FilterIdle

DenseNext ==
    \/ MissingUrl
    \/ PostCrawl
    \/ StartDomain
    \/ StartUrlInvalid
    \/ Return
    \/ Discard
    \/ Dequeue
    \/ Launch
    \/ ScrapeDense
    \/ ScrapeFails
    \/ RespondOk
    \/ RespondError

DenseSpec == DenseInit /\ [][DenseNext]_vars

(***************************************************************************)
(* Two requests served by one process. Node runs one handler at a time and *)
(* leaves it only at an await: the variables of the module are those of    *)
(* the request that runs, and other holds those of the suspended one.      *)
(* Every variable of the handler and of crawlUrl is a const or let of the  *)
(* call, so a switch exchanges all of them. The fetcher is a fixed site:   *)
(* a url has the same outcome whichever crawl asks for it.                 *)
(***************************************************************************)
PairMaxPages == 4

\* the site: its pages and the anchors they hold; /d does not respond
SiteAnchors(url) ==
    IF url = Https(ExampleCom, <<"/">>)
    THEN << Https(ExampleCom, <<"/", "d">>),
            Https(ExampleCom, <<"/", "a">>),
            Https(BlogExampleCom, <<"/", "c">>) >>
    ELSE IF url = Https(ExampleCom, <<"/", "a">>)
    THEN << Https(ExampleCom, <<"/">>),
            Https(BlogExampleCom, <<"/", "c">>),
            Https(ExampleCom, <<"/", "f", ".zip">>),
            Https(ExampleCom, <<"/", "e">>) >>
    ELSE IF url = Https(BlogExampleCom, <<"/", "c">>)
    THEN << Https(ExampleCom, <<"/", "a">>) >>
    ELSE <<>>

SiteResponds(url) == url # Https(ExampleCom, <<"/", "d">>)

PairUrls ==
    { Https(ExampleCom, <<"/">>),
      Https(ExampleCom, <<"/", "a">>),
      Https(<<>>, <<>>),
      <<>> }

PairBodies ==
    [url : PairUrls,
     maxPages : {Some(n) : n \in 1..PairMaxPages},
     maxDepth : {Some(MaxDepthBound)},
     render : {Undefined},
     screenshot : {Undefined},
     allowSubdomains : {Some(TRUE)}]

\* the variables of the request that runs
Running ==
    [body |-> body, spc |-> spc, response |-> response,
     options |-> options, startUrl |-> startUrl, maxPages |-> maxPages,
     maxDepth |-> maxDepth, allowSubdomains |-> allowSubdomains,
     visited |-> visited, queue |-> queue, results |-> results,
     linksDiscovered |-> linksDiscovered, startDomain |-> startDomain, pc |-> pc,
     current |-> current, returned |-> returned, fetches |-> fetches,
     inFlight |-> inFlight, browser |-> browser, openBrowsers |-> openBrowsers,
     discovered |-> discovered]

\* request c runs again, with vis as its visited
Resume(c, vis) ==
    /\ body' = c.body /\ spc' = c.spc /\ response' = c.response
    /\ options' = c.options /\ startUrl' = c.startUrl /\ maxPages' = c.maxPages
    /\ maxDepth' = c.maxDepth /\ allowSubdomains' = c.allowSubdomains
    /\ visited' = vis /\ queue' = c.queue /\ results' = c.results
    /\ linksDiscovered' = c.linksDiscovered /\ startDomain' = c.startDomain
    /\ pc' = c.pc /\ current' = c.current /\ returned' = c.returned
    /\ fetches' = c.fetches /\ inFlight' = c.inFlight /\ browser' = c.browser
    /\ openBrowsers' = c.openBrowsers /\ discovered' = c.discovered

\* the request that runs has not entered its handler, has answered, or is
\* suspended in await scrapeUrl(...)
AtAwait == spc \in {"request", "responded"} \/ pc = "fetching"

\* const visited at module level: one set for both crawls
SwitchSharedVisited ==
    /\ other.spc # "idle"
    /\ AtAwait
    /\ other' = Running
    /\ Resume(other, visited)
    /\ UNCHANGED <<rev, filterVars>>

\* the event loop leaves the request that runs at its await and resumes the other
Switch ==
    /\ other.spc # "idle"
    /\ AtAwait
    /\ other' = Running
    /\ Resume(other, other.visited)
    /\ UNCHANGED <<rev, filterVars>>

\* scrapeUrl resolves with the anchors the site holds for the url
SiteOk ==
    /\ SiteResponds(current.url)
    /\ ScrapeOkFrom({SiteAnchors(current.url)})

\* scrapeUrl rejects for a url the site does not serve
SiteFails ==
    /\ ~SiteResponds(current.url)
    /\ ScrapeFails

PairInit ==
    /\ rev \in Revisions
    /\ body \in PairBodies
    /\ spc = "request"
    /\ response = NoResponse
    /\ CrawlIdle
    /\ \E b \in PairBodies : other = [NoRequest EXCEPT !.body = b, !.spc = "request"]
    /\ FilterIdle

PairNext ==
    \/ MissingUrl
    \/ PostCrawl
    \/ StartDomain
    \/ StartUrlInvalid
    \/ Return
    \/ Discard
    \/ Dequeue
    \/ Launch
    \/ SiteOk
    \/ SiteFails
    \/ RespondOk
    \/ RespondError
    \/ Switch

PairSpec == PairInit /\ [][PairNext]_vars

\* the handler and crawlUrl are resumed whenever they can take a step, and every
\* scrapeUrl call settles: ScrapeOk or ScrapeFails ends every await
LiveSpec == Init /\ [][Next]_vars /\ WF_vars(Next)

(***************************************************************************)
(* filterLinks on its own: the same arguments go through the function      *)
(* with allowSubdomains = false, then with true, then with false again,    *)
(* and last with false on the raw links rearranged and repeated.           *)
(***************************************************************************)
Reverse(s) == [i \in 1..Len(s) |-> s[Len(s) + 1 - i]]

\* the raw links back to front, followed by the raw links once more
Shuffled(rawLinks) == Reverse(rawLinks) \o rawLinks

FilterInit ==
    /\ rev \in Revisions
    /\ fRaw \in RawLists
    /\ fCur \in CurrentUrls
    /\ fBase \in BaseDomains
    /\ fpc = "strict"
    /\ fStrict = NoOutcome
    /\ fSub = NoOutcome
    /\ fAgain = NoOutcome
    /\ fShuffled = NoOutcome
    /\ other = NoRequest
    /\ ServerIdle
    /\ CrawlIdle

FilterStrict ==
    /\ fpc = "strict"
    /\ fStrict' = filterLinks(rev, fRaw, fCur, fBase, FALSE)
    /\ fpc' = "sub"
    /\ UNCHANGED <<rev, other, serverVars, crawlVars, fRaw, fCur, fBase, fSub, fAgain, fShuffled>>

FilterSub ==
    /\ fpc = "sub"
    /\ fSub' = filterLinks(rev, fRaw, fCur, fBase, TRUE)
    /\ fpc' = "again"
    /\ UNCHANGED <<rev, other, serverVars, crawlVars, fRaw, fCur, fBase, fStrict, fAgain, fShuffled>>

FilterAgain ==
    /\ fpc = "again"
    /\ fAgain' = filterLinks(rev, fRaw, fCur, fBase, FALSE)
    /\ fpc' = "shuffled"
    /\ UNCHANGED <<rev, other, serverVars, crawlVars, fRaw, fCur, fBase, fStrict, fSub, fShuffled>>

FilterShuffled ==
    /\ fpc = "shuffled"
    /\ fShuffled' = filterLinks(rev, Shuffled(fRaw), fCur, fBase, FALSE)
    /\ fpc' = "done"
    /\ UNCHANGED <<rev, other, serverVars, crawlVars, fRaw, fCur, fBase, fStrict, fSub, fAgain>>

FilterNext == FilterStrict \/ FilterSub \/ FilterAgain \/ FilterShuffled

FilterSpec == FilterInit /\ [][FilterNext]_vars

(***************************************************************************)
(* Properties of crawlUrl, checked under Spec.                             *)
(***************************************************************************)
\* the pages of the successful scrapeUrl calls, in call order
RECURSIVE FetchedPages(_)
FetchedPages(log) ==
    IF log = <<>> THEN <<>>
    ELSE (IF Head(log).ok THEN <<[url |-> Head(log).url]>> ELSE <<>>)
         \o FetchedPages(Tail(log))

\* the start URLs of StartUrls that new URL rejects
MalformedStartUrls == { <<"/", "start">>, <<"https://">> }

\* C1: at every moment of crawlUrl and in the CrawlResult it returns, the number
\* of pages is at most maxPages.
C1_PagesWithinMaxPages ==
    /\ Len(results) <= maxPages
    /\ pc = "done" => Len(returned.pages) <= maxPages

\* C1 witness: crawlUrl returned maxPages = 3 pages with entries left in the queue.
C1_Witness ==
    /\ pc = "done" /\ maxPages = 3
    /\ Len(returned.pages) = 3 /\ Len(queue) > 0

\* C2: the url fields of the pages are pairwise distinct.
C2_DistinctPageUrls ==
    /\ \A i, j \in 1..Len(results) : results[i].url = results[j].url => i = j
    /\ pc = "done" =>
         \A i, j \in 1..Len(returned.pages) :
            returned.pages[i].url = returned.pages[j].url => i = j

\* C2 witness: three pages are fetched and the URL of one of them, found on two
\* pages and enqueued twice, still sits in the queue.
C2_Witness ==
    /\ pc = "loop" /\ Len(results) = 3
    /\ \E i \in 1..Len(queue) : \E k \in 1..Len(results) : queue[i].url = results[k].url

\* C3: every URL handed to scrapeUrl was dequeued with depth <= maxDepth; the seed
\* has depth 0 and every other fetched entry has depth d + 1 for a page of depth
\* d < maxDepth fetched with success before it.
C3_DepthRespected ==
    /\ pc = "fetching" => current.depth \in 0..maxDepth
    /\ \A i \in 1..Len(fetches) :
         /\ fetches[i].depth \in 0..maxDepth
         /\ fetches[i].depth = 0 => i = 1 /\ fetches[i].url = startUrl
         /\ fetches[i].depth > 0 =>
              \E j \in 1..(i - 1) : /\ fetches[j].ok
                                    /\ fetches[j].depth = fetches[i].depth - 1

\* C3 witness: with maxDepth = 2 a page of depth 2 was fetched.
C3_Witness ==
    /\ maxDepth = 2
    /\ \E i \in 1..Len(fetches) : fetches[i].depth = 2 /\ fetches[i].ok

\* C4: a rejected scrapeUrl call never ends crawlUrl: no exception reaches the
\* caller after a fetch, the crawl stays in its loop, and the result holds exactly
\* the pages of the successful calls, pagesScraped being their number.
C4_FailureDoesNotAbort ==
    /\ fetches # <<>> => pc \in {"loop", "fetching", "done"}
    /\ results = FetchedPages(fetches)
    /\ pc = "done" =>
         /\ returned.pages = FetchedPages(fetches)
         /\ returned.stats.pagesScraped = Len(FetchedPages(fetches))

\* C4 witness: the second scrapeUrl call was rejected, later calls succeeded, and
\* crawlUrl returned the two fetched pages.
C4_Witness ==
    /\ pc = "done"
    /\ Len(fetches) >= 3 /\ fetches[1].ok /\ ~fetches[2].ok /\ fetches[3].ok
    /\ returned.stats.pagesScraped = 2

\* C5: with a startUrl that new URL rejects, crawlUrl raises before any scrapeUrl
\* call; crawlUrl raises in no other case.
C5_OnlyMalformedStartRaises ==
    /\ (startUrl \in MalformedStartUrls /\ pc # "start") =>
          /\ pc = "raised"
          /\ fetches = <<>> /\ visited = {} /\ results = <<>>
    /\ pc = "raised" => startUrl \in MalformedStartUrls /\ fetches = <<>>

\* C5 witness: crawlUrl raised.
C5_Witness == pc = "raised" /\ startUrl = <<"/", "start">>

\* C6 as stated: with maxDepth = 0 crawlUrl returns exactly one page, the start page.
C6_Original ==
    (pc = "done" /\ maxDepth = 0) =>
        /\ Len(returned.pages) = 1
        /\ returned.pages[1].url = startUrl

\* C6 amended: with maxDepth = 0 only startUrl is ever fetched and no link is ever
\* enqueued; crawlUrl returns exactly the start page when maxPages >= 1 and the
\* fetch of the start page succeeds, and no page otherwise.
C6_DepthZero ==
    maxDepth = 0 =>
        /\ \A i \in 1..Len(queue) : queue[i] = [url |-> startUrl, depth |-> 0]
        /\ Len(queue) <= 1
        /\ \A i \in 1..Len(fetches) : i = 1 /\ fetches[i].url = startUrl
        /\ pc = "done" =>
             returned.pages =
                 IF maxPages >= 1 /\ fetches # <<>> /\ fetches[1].ok
                 THEN <<[url |-> startUrl]>> ELSE <<>>

\* C6 witness: with maxDepth = 0 the start page held two links in scope and
\* crawlUrl returned the start page alone.
C6_Witness ==
    /\ maxDepth = 0 /\ pc = "done"
    /\ Len(fetches) = 1 /\ fetches[1].ok /\ fetches[1].inScope = 2
    /\ returned.pages = <<[url |-> startUrl]>>

(***************************************************************************)
(* Properties of filterLinks, checked under FilterSpec.  The scope of a    *)
(* link is stated on the labels of its host, the text between the dots.    *)
(***************************************************************************)
RECURSIVE Labels(_)
Labels(host) ==
    LET i == IndexOfAny(host, {"."})
    IN  IF i > Len(host) THEN <<host>>
        ELSE <<SubSeq(host, 1, i - 1)>> \o Labels(SubSeq(host, i + 1, Len(host)))

\* the labels of a host without a leading www label
SiteLabels(host) ==
    LET ls == Labels(host)
    IN  IF Len(ls) > 1 /\ ls[1] = <<"www">> THEN Tail(ls) ELSE ls

\* the host is the base domain, a leading www. apart on both sides
OnBaseDomain(host, base) == SiteLabels(host) = SiteLabels(base)

\* the host ends with "." + the base domain without its www., on a label boundary
OnSubdomain(host, base) ==
    LET hl == Labels(host)
        bl == SiteLabels(base)
    IN  Len(hl) > Len(bl) /\ SubSeq(hl, Len(hl) - Len(bl) + 1, Len(hl)) = bl

AssetExtensions == {".png", ".jpg", ".pdf", ".zip"}

\* the path ends in an asset extension, in either case
EndsInAssetExtension(pathname) ==
    Len(pathname) > 0 /\ LowerTok(pathname[Len(pathname)]) \in AssetExtensions

\* empty, fragment-only, mailto: and javascript: links
IgnoredLink(href) == href = <<>> \/ href[1] \in {"#", "mailto:", "javascript:"}

\* the links of RawPool that new URL rejects
MalformedLinks == { Https(<<"exa", " ", "mple", ".", "com">>, <<"/">>), <<"https://">> }

\* the string a revision keeps for an accepted link: the resolved href (rev1),
\* or the href without query, fragment and trailing slash (rev3)
KeptForm(url) ==
    IF rev = "rev1" THEN url.href
    ELSE <<url.scheme>> \o url.hostname \o StripTrailingSlash(url.pathname)

\* the raw links of the call under test that a filter with the stated scope keeps
LinksInScope(allow) ==
    { l \in Range(fRaw) :
        /\ ~IgnoredLink(l)
        /\ l \notin MalformedLinks
        /\ LET url == NewURLWithBase(l, fCur)
           IN  /\ \/ OnBaseDomain(url.hostname, fBase)
                  \/ allow /\ OnSubdomain(url.hostname, fBase)
               /\ ~EndsInAssetExtension(url.pathname) }

ExpectedLinks(allow) == { KeptForm(NewURLWithBase(l, fCur)) : l \in LinksInScope(allow) }

\* C7: with allowSubdomains = false filterLinks returns exactly the links whose
\* resolved host is the base domain (www. apart), that are not empty, fragment-only,
\* mailto: or javascript: links and whose path does not end in an asset extension.
C7_StrictScope ==
    fpc \in {"sub", "done"} =>
        /\ ~fStrict.raised
        /\ Range(fStrict.links) = ExpectedLinks(FALSE)

\* C7 in revision rev1 alone.
C7_StrictScopeRev1 == rev = "rev1" => C7_StrictScope

\* C8: with allowSubdomains = true filterLinks returns what it returns with false
\* and, besides, exactly the links without an asset extension whose host ends with
\* "." + the normalized base domain.
C8_SubdomainSuperset ==
    fpc = "done" =>
        /\ ~fSub.raised
        /\ Range(fStrict.links) \subseteq Range(fSub.links)
        /\ Range(fSub.links) = Range(fStrict.links) \cup ExpectedLinks(TRUE)

\* C8 in revision rev1 alone.
C8_SubdomainSupersetRev1 == rev = "rev1" => C8_SubdomainSuperset

\* C9: filterLinks returns no link whose path ends in .png, .jpg, .pdf or .zip.
C9_NoAssetLinks ==
    \A l \in Range(fStrict.links) \cup Range(fSub.links) :
        ~EndsInAssetExtension(NewURL(l).pathname)

\* C9 in revision rev1 alone.
C9_NoAssetLinksRev1 == rev = "rev1" => C9_NoAssetLinks

\* rawLinks without the links that new URL rejects
RECURSIVE WellFormed(_)
WellFormed(rawLinks) ==
    IF rawLinks = <<>> THEN <<>>
    ELSE (IF Head(rawLinks) \in MalformedLinks THEN <<>> ELSE <<Head(rawLinks)>>)
         \o WellFormed(Tail(rawLinks))

\* C10: filterLinks never raises, and it returns for rawLinks what it returns for
\* rawLinks without its malformed links.
C10_MalformedLinksDropped ==
    /\ fpc \in {"sub", "done"} =>
         /\ ~fStrict.raised
         /\ fStrict = filterLinks(rev, WellFormed(fRaw), fCur, fBase, FALSE)
    /\ fpc = "done" =>
         /\ ~fSub.raised
         /\ fSub = filterLinks(rev, WellFormed(fRaw), fCur, fBase, TRUE)

\* C10 witness: a malformed link came first and the link after it was accepted.
C10_Witness ==
    /\ fpc = "done"
    /\ Len(fRaw) = 2 /\ fRaw[1] \in MalformedLinks
    /\ fStrict.links = <<fRaw[2]>>
RECURSIVE ExpandedLinks(_)
ExpandedLinks(log) ==
    IF log = <<>> THEN 0
    ELSE (IF Head(log).ok /\ Head(log).depth < maxDepth THEN Head(log).inScope ELSE 0)
         + ExpandedLinks(Tail(log))

\* C12: stats.linksDiscovered of the returned CrawlResult is the sum, over the
\* pages fetched with success at a depth below maxDepth, of the number of links
\* filterLinks returned for the page; links already visited are counted, pages
\* at maxDepth and rejected calls add nothing.
C12_LinksDiscoveredIsSum ==
    /\ pc \in {"loop", "fetching"} => linksDiscovered = ExpandedLinks(fetches)
    /\ pc = "done" => returned.stats.linksDiscovered = ExpandedLinks(fetches)

\* C12 witness: crawlUrl returned after a page below maxDepth held a link that
\* was already visited, a page at maxDepth held links in scope and a call was
\* rejected.
C12_Witness ==
    /\ pc = "done"
    /\ returned.stats.linksDiscovered >= 2
    /\ \E i \in 1..Len(fetches) :
          fetches[i].ok /\ fetches[i].depth < maxDepth /\ fetches[i].known >= 1
    /\ \E i \in 1..Len(fetches) :
          fetches[i].ok /\ fetches[i].depth = maxDepth /\ fetches[i].inScope >= 1
    /\ \E i \in 1..Len(fetches) : ~fetches[i].ok

\* C13: visited never loses an element, and every entry a step adds to the queue
\* carries a URL that is not in visited at that step: a URL that has entered
\* visited is not enqueued again, whichever page it is found on.
C13_VisitedOnlyGrows ==
    [][ /\ visited \subseteq visited'
        /\ Len(queue') > Len(queue) =>
             \A i \in (Len(queue) + 1)..Len(queue') :
                /\ queue'[i].url \notin visited
                /\ queue'[i].url \notin visited' ]_vars

\* C13 witness: the page fetched last, below maxDepth, held a link that was in
\* visited; the queue cap was not reached and no visited URL is in the queue.
C13_Witness ==
    /\ pc = "loop"
    /\ Cardinality(visited) >= 2
    /\ Len(results) + Len(queue) < maxPages * 2
    /\ fetches # <<>>
    /\ fetches[Len(fetches)].ok
    /\ fetches[Len(fetches)].depth < maxDepth
    /\ fetches[Len(fetches)].known >= 1
    /\ \A i \in 1..Len(queue) : queue[i].url \notin visited

\* C14: scrapeUrl is called at most once for a URL string, whether the call
\* resolved or was rejected: the calls of the history and the call in flight
\* have pairwise different URLs.
C14_FetchedAtMostOnce ==
    /\ \A i, j \in 1..Len(fetches) : fetches[i].url = fetches[j].url => i = j
    /\ pc = "fetching" => \A i \in 1..Len(fetches) : fetches[i].url # current.url

\* C14 witness: the call for a URL was rejected while a second copy of the URL,
\* enqueued by another page before the first copy was dequeued, is still in
\* the queue and the loop goes on.
C14_Witness ==
    /\ pc = "loop"
    /\ fetches # <<>>
    /\ ~fetches[Len(fetches)].ok
    /\ \E k \in 1..Len(queue) : queue[k].url = fetches[Len(fetches)].url
    /\ LoopCondition

\* C15: once new URL(startUrl) has succeeded crawlUrl returns, whatever the pages
\* link to and whichever calls are rejected; when it returns, the queue is empty
\* or the number of pages is maxPages.  Checked under LiveSpec.
C15_Terminates ==
    /\ (pc = "loop") ~> (pc = "done")
    /\ [](pc = "done" => (queue = <<>> \/ Len(returned.pages) = maxPages))

\* C15 witness: crawlUrl returned with an empty queue and fewer than maxPages
\* pages after a rejected call and after a page that linked back to a visited URL.
C15_Witness ==
    /\ pc = "done"
    /\ queue = <<>>
    /\ Len(returned.pages) < maxPages
    /\ \E i \in 1..Len(fetches) : ~fetches[i].ok
    /\ \E i \in 1..Len(fetches) : fetches[i].known >= 1

\* the form filterLinks of the running revision gives a link before it is
\* enqueued: the serialised URL in the revision at 299-321, origin + pathname
\* without a trailing slash in the revision at 826-864
CrawlerNormalization(url) ==
    IF rev = "rev1" THEN NewURL(url).href ELSE Normalized(NewURL(url))

\* C16: visited holds normalised URL strings only, the seed included, and no two
\* scrapeUrl calls are made for URLs with the same normalised form: the start
\* page is not fetched again when a link points back to it.
C16_NormalizedVisited ==
    /\ \A v \in visited : CrawlerNormalization(v) = v
    /\ \A i, j \in 1..Len(fetches) :
          CrawlerNormalization(fetches[i].url) = CrawlerNormalization(fetches[j].url)
             => i = j

\* C17: to a request with a url the handler answers success: true with the
\* CrawlResult when crawlUrl returned, and status 500 with success: false and an
\* error text when crawlUrl raised; once a page was requested, rejected scrapeUrl
\* calls never lead to 500.
C17_CrawlResponse ==
    /\ (spc = "responded" /\ pc = "done") =>
          /\ response.status = 200 /\ response.success
          /\ response.data = returned
    /\ (spc = "responded" /\ pc = "raised") =>
          /\ response.status = 500 /\ ~response.success
          /\ response.error # <<>>
    /\ (spc = "responded" /\ body.url # <<>>) => pc \in {"done", "raised"}
    /\ (spc = "responded" /\ ~(startUrl \in MalformedStartUrls) /\ body.url # <<>>) =>
          /\ response.status = 200 /\ response.success
    /\ fetches # <<>> => response.status # 500

\* C17 witness: two scrapeUrl calls, the second rejected, and the handler
\* answered success: true with the one page.
C17_Witness ==
    /\ spc = "responded"
    /\ Len(fetches) = 2 /\ fetches[1].ok /\ ~fetches[2].ok
    /\ response.success /\ response.status = 200
    /\ Len(response.data.pages) = 1

\* C18: a field the request leaves out runs the crawl with maxPages = 10,
\* maxDepth = 2, render = false, screenshot = false, allowSubdomains = false; a
\* field that is present, 0 and false included, is used as it is.
C18_Defaults ==
    spc \in {"crawling", "responded"} /\ body.url # <<>> =>
       /\ maxPages = IF body.maxPages = <<>> THEN 10 ELSE body.maxPages[1]
       /\ maxDepth = IF body.maxDepth = <<>> THEN 2 ELSE body.maxDepth[1]
       /\ allowSubdomains =
             IF body.allowSubdomains = <<>> THEN FALSE ELSE body.allowSubdomains[1]
       /\ \A i \in 1..Len(fetches) :
             /\ fetches[i].render =
                   <<IF body.render = <<>> THEN FALSE ELSE body.render[1]>>
             /\ fetches[i].screenshot =
                   <<IF body.screenshot = <<>> THEN FALSE ELSE body.screenshot[1]>>

\* C18 witness: a request with a url and nothing else ran with maxPages = 10 and
\* maxDepth = 2 and a page was requested with render = false, screenshot = false.
C18_Witness ==
    /\ spc = "responded"
    /\ body = [NoBody EXCEPT !.url = startUrl]
    /\ maxPages = 10 /\ maxDepth = 2 /\ ~allowSubdomains
    /\ Len(fetches) >= 2
    /\ fetches[2].render = <<FALSE>> /\ fetches[2].screenshot = <<FALSE>>

\* C19: at most one scrapeUrl call is in flight, and a call is started only when
\* none is in flight and every earlier call has been settled and processed: its
\* page is in results and crawlUrl is back at the head of the loop.
C19_OneFetchInFlight ==
    /\ [](/\ inFlight \in {0, 1}
          /\ inFlight = 1 <=> pc = "fetching")
    /\ [][ inFlight' > inFlight =>
             /\ inFlight = 0
             /\ pc = "loop" /\ current = NoEntry
             /\ results = FetchedPages(fetches)
             /\ Head(queue) = current' ]_vars

\* C19 witness: the third scrapeUrl call is in flight, the two before it are
\* settled, and two more entries wait in the queue.
C19_Witness ==
    /\ pc = "fetching" /\ inFlight = 1
    /\ Len(fetches) = 2
    /\ Len(queue) >= 2

\* C20: the queue is first in, first out and the depths in it never decrease
\* from head to tail; the depths of the scrapeUrl calls, in call order, never
\* decrease, and so do not the depths of the pages of the result.
C20_BreadthFirst ==
    /\ [](/\ \A i, j \in 1..Len(queue) : i <= j => queue[i].depth <= queue[j].depth
          /\ \A i, j \in 1..Len(fetches) : i <= j => fetches[i].depth <= fetches[j].depth
          /\ (pc = "fetching" /\ fetches # <<>>) =>
                fetches[Len(fetches)].depth <= current.depth
          /\ (queue # <<>> /\ fetches # <<>>) =>
                fetches[Len(fetches)].depth <= Head(queue).depth)
    /\ [][ \/ queue' = queue
           \/ queue # <<>> /\ queue' = Tail(queue)
           \/ /\ Len(queue') > Len(queue)
              /\ SubSeq(queue', 1, Len(queue)) = queue ]_vars

\* C20 witness: the calls so far have depths 0, 1, 1 and the entry at the head of
\* the queue, found on the first page of depth 1, has depth 2.
C20_Witness ==
    /\ pc = "loop"
    /\ Len(fetches) = 3
    /\ fetches[1].depth = 0 /\ fetches[2].depth = 1 /\ fetches[3].depth = 1
    /\ fetches[2].ok /\ fetches[3].ok
    /\ queue # <<>> /\ Head(queue).depth = 2

\* C21: while a scrapeUrl call for a URL is in flight the URL is in visited, and
\* the URL of every settled call, resolved or rejected, is still in visited.
C21_VisitedBeforeFetch ==
    /\ pc = "fetching" => current.url \in visited
    /\ \A i \in 1..Len(fetches) : fetches[i].url \in visited

\* C21 witness: a call is in flight for a URL in visited, after a rejected call
\* whose URL is in visited.
C21_Witness ==
    /\ pc = "fetching" /\ current.url \in visited
    /\ fetches # <<>>
    /\ ~fetches[Len(fetches)].ok
    /\ fetches[Len(fetches)].url \in visited
    /\ fetches[Len(fetches)].url # current.url

\* C22: a step taken at the head of the loop on an entry whose url is in visited
\* or whose depth is above maxDepth removes that entry from the queue and
\* changes nothing else: no scrapeUrl call, no exception.
C22_DiscardFrame ==
    [][ ( /\ pc = "loop"
          /\ Len(queue) > 0 /\ Len(results) < maxPages
          /\ (Head(queue).url \in visited \/ Head(queue).depth > maxDepth) )
        => /\ queue' = Tail(queue)
           /\ pc' = "loop"
           /\ inFlight' = 0
           /\ UNCHANGED <<visited, results, linksDiscovered, fetches, current>> ]_vars

\* C22 witness: four entries were enqueued (the seed, two links of the start
\* page, one link of the second page), three calls were made and the queue is
\* empty: the second copy of the third URL was discarded.
C22_Witness ==
    /\ pc = "loop" /\ queue = <<>>
    /\ maxPages >= 4
    /\ Len(fetches) = 3
    /\ fetches[1].ok /\ fetches[1].inScope = 2 /\ fetches[1].known = 0
    /\ fetches[2].ok /\ fetches[2].inScope = 1 /\ fetches[2].known = 0
    /\ fetches[1].depth < maxDepth /\ fetches[2].depth < maxDepth
    /\ fetches[3].inScope = 0

\* C23: an entry of depth maxDepth whose url is not in visited is fetched; when
\* the call resolves the page is appended to results, nothing is enqueued and
\* linksDiscovered stays as it is.
C23_MaxDepthPageNotExpanded ==
    [][ /\ ( /\ pc = "loop"
             /\ Len(queue) > 0 /\ Len(results) < maxPages
             /\ Head(queue).depth = maxDepth /\ Head(queue).url \notin visited )
           => /\ pc' = "fetching" /\ current' = Head(queue)
        /\ ( /\ pc = "fetching" /\ current.depth = maxDepth
             /\ Len(fetches') > Len(fetches) /\ fetches'[Len(fetches')].ok )
           => /\ results' = Append(results, [url |-> current.url])
              /\ queue' = queue
              /\ linksDiscovered' = linksDiscovered ]_vars

\* C23 witness: the page fetched last has depth maxDepth >= 1 and held a link in
\* scope that was not visited; the queue cap was not reached.
C23_Witness ==
    /\ pc = "loop"
    /\ maxDepth >= 1
    /\ fetches # <<>>
    /\ fetches[Len(fetches)].ok
    /\ fetches[Len(fetches)].depth = maxDepth
    /\ fetches[Len(fetches)].inScope > fetches[Len(fetches)].known
    /\ Len(results) + Len(queue) < maxPages * 2
    /\ results # <<>> /\ results[Len(results)].url = fetches[Len(fetches)].url

\* C24: |results| + |queue| never exceeds max(1, 2 * maxPages).
C24_FrontierBounded ==
    Len(results) + Len(queue) <= (IF 2 * maxPages > 1 THEN 2 * maxPages ELSE 1)

\* C24 witness: with maxPages = 1 the start page held two links in scope, none of
\* them visited, and one entry is in the queue: the cap kept the second link out.
C24_Witness ==
    /\ pc = "loop" /\ maxPages = 1
    /\ Len(fetches) = 1 /\ fetches[1].ok /\ fetches[1].depth < maxDepth
    /\ fetches[1].inScope = 2 /\ fetches[1].known = 0
    /\ Len(queue) = 1 /\ Len(results) = 1

\* C25: the step that settles a scrapeUrl call as rejected leaves results,
\* linksDiscovered, the queue and visited as they are and goes back to the loop.
C25_FailureFrame ==
    [][ ( /\ pc = "fetching"
          /\ Len(fetches') > Len(fetches) /\ ~fetches'[Len(fetches')].ok )
        => /\ UNCHANGED <<results, linksDiscovered, queue, visited>>
           /\ pc' = "loop" ]_vars

\* C25 witness: the call settled last was rejected while results, the queue and
\* linksDiscovered were not empty.
C25_Witness ==
    /\ pc = "loop"
    /\ fetches # <<>> /\ ~fetches[Len(fetches)].ok
    /\ results # <<>> /\ queue # <<>> /\ linksDiscovered > 0
    /\ fetches[Len(fetches)].url \in visited

\* C26: every entry of the queue, and the entry being fetched, has a depth of at
\* most maxDepth.
C26_QueueDepthBounded ==
    /\ \A i \in 1..Len(queue) : queue[i].depth \in 0..maxDepth
    /\ pc = "fetching" => current.depth \in 0..maxDepth

\* C26 witness: with maxDepth = 2 an entry of depth 2 is in the queue and the
\* page fetched last, of depth 2, held an unvisited link in scope.
C26_Witness ==
    /\ pc = "loop" /\ maxDepth = 2
    /\ \E i \in 1..Len(queue) : queue[i].depth = 2
    /\ fetches # <<>>
    /\ fetches[Len(fetches)].ok /\ fetches[Len(fetches)].depth = 2
    /\ fetches[Len(fetches)].inScope > fetches[Len(fetches)].known

\* C27: every browser a scrapeUrl call launches is closed when the call ends,
\* resolved or rejected, and a call launches a browser of its own: outside a
\* call no browser is open, a call starts with no browser, and a launch happens
\* only inside a call that has launched none.
C27_BrowserClosed ==
    /\ [](/\ openBrowsers = (IF browser = "open" THEN 1 ELSE 0)
          /\ pc # "fetching" => openBrowsers = 0 /\ browser = "none")
    /\ [][ /\ inFlight' > inFlight => browser' = "none" /\ openBrowsers' = 0
           /\ openBrowsers' > openBrowsers =>
                /\ pc = "fetching" /\ openBrowsers = 0
                /\ Len(fetches') = Len(fetches)
           /\ (Len(fetches') > Len(fetches)) => openBrowsers' = 0 ]_vars

\* C27 witness: after a resolved and a rejected call, the browser of the call in
\* flight is open and it is the only open browser.
C27_Witness ==
    /\ pc = "fetching" /\ browser = "open" /\ openBrowsers = 1
    /\ Len(fetches) >= 2
    /\ \E i \in 1..Len(fetches) : fetches[i].ok
    /\ \E i \in 1..Len(fetches) : ~fetches[i].ok

\* the URL is inside the crawl scope: its host is the host of startUrl, a
\* leading www. apart, or, with allowSubdomains, a subdomain of it
InCrawlScope(url) ==
    \/ OnBaseDomain(NewURL(url).hostname, NewURL(startUrl).hostname)
    \/ allowSubdomains /\ OnSubdomain(NewURL(url).hostname, NewURL(startUrl).hostname)

\* C28: every URL fetched at a depth d > 0, and every queue entry of depth d > 0,
\* was returned by filterLinks for a page of depth d - 1 that was fetched with
\* success before it, and is inside the crawl scope; links are recorded as
\* returned by filterLinks only in the step that appends their page to results.
C28_ParentAndScope ==
    /\ [](/\ \A i \in 1..Len(fetches) :
               fetches[i].depth > 0 =>
                  /\ \E e \in discovered :
                        e.url = fetches[i].url /\ e.depth = fetches[i].depth
                  /\ \E j \in 1..(i - 1) :
                        fetches[j].ok /\ fetches[j].depth = fetches[i].depth - 1
                  /\ InCrawlScope(fetches[i].url)
          /\ \A k \in 1..Len(queue) :
               queue[k].depth > 0 =>
                  /\ \E e \in discovered :
                        e.url = queue[k].url /\ e.depth = queue[k].depth
                  /\ InCrawlScope(queue[k].url)
          /\ \A i \in 1..Len(fetches) : fetches[i].depth = 0 => fetches[i].url = startUrl)
    /\ [][ discovered' # discovered =>
             /\ pc = "fetching"
             /\ results' = Append(results, [url |-> current.url])
             /\ discovered \subseteq discovered'
             /\ \A e \in discovered' \ discovered : e.depth = current.depth + 1 ]_vars

\* C28 witness: crawlUrl returned three pages or more, one of depth 2 and one on
\* a subdomain of the start host.
C28_Witness ==
    /\ pc = "done" /\ allowSubdomains
    /\ Len(returned.pages) >= 3
    /\ \E i \in 1..Len(fetches) : fetches[i].ok /\ fetches[i].depth = 2
    /\ \E i \in 1..Len(fetches) :
          /\ fetches[i].ok
          /\ OnSubdomain(NewURL(fetches[i].url).hostname, NewURL(startUrl).hostname)
          /\ ~OnBaseDomain(NewURL(fetches[i].url).hostname, NewURL(startUrl).hostname)


\* the crawl returned with fewer pages than maxPages
ReturnedShort == pc = "done" /\ Len(returned.pages) < maxPages

\* C29 as stated: when crawlUrl returns with fewer than maxPages pages, every
\* link filterLinks returned for a successfully fetched page of depth < maxDepth
\* is in visited
C29_AllDiscoveredVisited ==
    ReturnedShort => \A e \in discovered : e.url \in visited

\* C29, amended: when crawlUrl returns with fewer than maxPages pages, the queue
\* is exhausted and every link filterLinks returned for a successfully fetched
\* page of depth < maxDepth is in visited unless the queue cap
\* (results.length + queue.length >= maxPages * 2) kept it out of the queue
C29_UncappedDiscoveredVisited ==
    ReturnedShort =>
        /\ queue = <<>>
        /\ \A e \in discovered : e.capped \/ e.url \in visited

\* a crawl returned short of maxPages after it had fetched pages below maxDepth
\* whose links, several of them and none capped, were all visited by the end
C29_Witness ==
    /\ ReturnedShort
    /\ Cardinality({e.url : e \in discovered}) >= 3
    /\ \A e \in discovered : ~e.capped /\ e.url \in visited
    /\ \E i \in 1..Len(fetches) : ~fetches[i].ok

(***************************************************************************)
(* crawlUrl run alone against the site, from the call to the return, as    *)
(* one function of the revision and the request body.                      *)
(***************************************************************************)
RECURSIVE AloneEnqueue(_, _, _, _, _, _, _)
AloneEnqueue(filteredLinks, i, q, nResults, depth, vis, limit) ==
    IF i > Len(filteredLinks) THEN q
    ELSE AloneEnqueue(filteredLinks, i + 1,
                      IF filteredLinks[i] \notin vis /\ nResults + Len(q) < limit * 2
                      THEN Append(q, [url |-> filteredLinks[i], depth |-> depth + 1])
                      ELSE q,
                      nResults, depth, vis, limit)

\* the queue after the loop body handled the fetched page of entry
AloneExpand(cfg, entry, filtered, q, nResults, vis) ==
    IF entry.depth >= cfg.maxDepth \/ filtered.raised THEN q
    ELSE AloneEnqueue(filtered.links, 1, q, nResults, entry.depth, vis, cfg.maxPages)

AloneCount(cfg, entry, filtered) ==
    IF entry.depth >= cfg.maxDepth \/ filtered.raised THEN 0 ELSE Len(filtered.links)

AloneFiltered(cfg, entry) ==
    filterLinks(cfg.rev, ExtractLinks(SiteAnchors(entry.url)), entry.url,
                cfg.startDomain, cfg.allowSubdomains)

RECURSIVE AloneLoop(_, _, _, _, _)
AloneFetch(cfg, entry, vis, q, res, n) ==
    IF ~SiteResponds(entry.url) THEN AloneLoop(cfg, vis, q, res, n)
    ELSE AloneLoop(cfg, vis,
                   AloneExpand(cfg, entry, AloneFiltered(cfg, entry), q, Len(res) + 1, vis),
                   Append(res, [url |-> entry.url]),
                   n + AloneCount(cfg, entry, AloneFiltered(cfg, entry)))

AloneLoop(cfg, vis, q, res, n) ==
    IF ~(Len(q) > 0 /\ Len(res) < cfg.maxPages)
    THEN [pages |-> res, stats |-> [pagesScraped |-> Len(res), linksDiscovered |-> n]]
    ELSE IF Head(q).url \in vis \/ Head(q).depth > cfg.maxDepth
    THEN AloneLoop(cfg, vis, Tail(q), res, n)
    ELSE AloneFetch(cfg, Head(q), vis \cup {Head(q).url}, Tail(q), res, n)

AloneConfig(r, b) ==
    [rev |-> r,
     maxPages |-> Coalesce(b.maxPages, DefaultMaxPages),
     maxDepth |-> Coalesce(b.maxDepth, DefaultMaxDepth),
     allowSubdomains |-> Coalesce(b.allowSubdomains, FALSE),
     startDomain |-> NewURL(b.url).hostname]

\* what crawlUrl returns for body b when no other request is served
CrawlAlone(r, b) ==
    AloneLoop(AloneConfig(r, b), {}, <<[url |-> b.url, depth |-> 0]>>, <<>>, 0)

\* request c has what it would have when served alone
AsAlone(c) ==
    /\ c.pc = "done" => c.returned = CrawlAlone(rev, c.body)
    /\ c.spc = "responded" /\ c.response.success =>
           c.response.data = CrawlAlone(rev, c.body)

\* C30: two crawls served concurrently, their fetch awaits interleaved in any
\* way, return the pages and stats each would return when run alone against
\* the same fetcher outcomes
C30_NoInterference == AsAlone(Running) /\ AsAlone(other)

\* a crawl was served from call to answer, with pages found through links, while
\* the other crawl waited in a fetch of its own after it had visited a url that
\* the first crawl visited too
C30_Witness ==
    /\ spc = "responded" /\ response.success
    /\ Len(response.data.pages) >= 3
    /\ other.pc = "fetching" /\ Len(other.results) >= 1
    /\ Len(fetches) >= 3
    /\ other.visited \cap visited # {}
    /\ other.body.url # body.url
====
